---- MODULE Spec2Model ----
(***************************************************************************)
(* Model of DocumentManager (src/document_manager.py): the in-memory       *)
(* metadata dict, the persisted metadata file, the backing directory, and  *)
(* the handlers add_document, remove_document, sync_with_filesystem,       *)
(* get_storage_stats, cleanup_orphaned_files and check_duplicate.  Each    *)
(* handler is a sequence of steps split at its I/O points: a step maps the *)
(* world W (directory, metadata, metadata file, clock) and the caller's    *)
(* frame L to the next world and frame.  Run composes the steps of one     *)
(* call; the step actions take them one at a time so that crashes, I/O     *)
(* faults and interleaved callers of the shared manager can be examined.   *)
(***************************************************************************)
EXTENDS Integers, Sequences, FiniteSets, TLC

\* ---------------------------------------------------------------- bounds
MaxByte == 2
MaxLen == 1
MaxClock == 1
MaxThreads == 2
MaxOps == 4
MaxConcurrentCalls == 2
MaxInitialFiles == 1

\* ---------------------------------------------------------------- values
Bytes == 1..MaxByte
Contents == UNION {[1..n -> Bytes] : n \in 0..MaxLen}
Threads == 1..MaxThreads

\* file names are <<stem, suffix>>, the parts Path.name / Path.suffix give
Names == {<<"a", ".txt">>, <<"b", ".pdf">>, <<"n", ".md">>}
RecognizedSuffixes == {".pdf", ".txt", ".docx"}
\* str.lower() on the suffixes the model uses
Lower(s) ==
    CASE s = ".TXT" -> ".txt"
      [] s = ".PDF" -> ".pdf"
      [] s = ".DOCX" -> ".docx"
      [] OTHER -> s
Recognized(n) == Lower(n[2]) \in RecognizedSuffixes

\* names the metadata file can be configured with (the metadata_file argument
\* of __init__); the default is document_metadata.json
DefaultMetadataFile == <<"document_metadata", ".json">>
MetadataFileNames ==
    {<<stem, suffix>> : stem \in {"document_metadata", "index"},
                        suffix \in {".json", ".txt", ".TXT", ".db"}}
\* the stems above that end with _metadata
MetadataStems == {"document_metadata"}
\* the directory entry of fs that is the metadata file, when fs models it
Sidecar(fs) == DOMAIN fs \ Names
\* the text json.dump writes for an empty mapping: the two bytes { and }
EmptyJsonText == <<1, 2>>

Range(s) == {s[i] : i \in 1..Len(s)}
Orderings(S) == {s \in [1..Cardinality(S) -> S] : Range(s) = S}

\* ------------------------------------------------------------- the hasher
RECURSIVE PositionalCode(_)
PositionalCode(c) ==
    IF c = <<>> THEN 0 ELSE Head(c) + (MaxByte + 1) * PositionalCode(Tail(c))

\* _calculate_file_hash: a collision-free digest of the bytes
Digest(c) == PositionalCode(c)

IsoFormat(t) == [iso |-> t]
FilePath(n) == <<"data", n>>

\* ------------------------------------------------- the metadata dict
\* A Python dict keeps insertion order: order lists the keys, val the values.
NoRec == [status |-> "absent"]
EmptyDict == [order |-> <<>>, val |-> [n \in Names |-> NoRec]]
Has(D, f) == D.val[f] # NoRec
Get(D, f) == D.val[f]
Keys(D) == Range(D.order)
Put(D, f, r) ==
    [order |-> IF Has(D, f) THEN D.order ELSE Append(D.order, f),
     val |-> [D.val EXCEPT ![f] = r]]
Del(D, f) ==
    [order |-> SelectSeq(D.order, LAMBDA x : x # f),
     val |-> [D.val EXCEPT ![f] = NoRec]]

UploadedRecord(f, c, t) ==
    [hash |-> Digest(c), upload_date |-> IsoFormat(t), file_size |-> Len(c),
     file_path |-> FilePath(f), status |-> "active", synced |-> FALSE]
SyncedRecord(f, c, mtime) ==
    [hash |-> Digest(c), upload_date |-> IsoFormat(mtime), file_size |-> Len(c),
     file_path |-> FilePath(f), status |-> "active", synced |-> TRUE]

\* ------------------------------------------------- the backing directory
NoFile == [exists |-> FALSE]
File(c, t) == [exists |-> TRUE, content |-> c, mtime |-> t]
Exists(fs, f) == fs[f].exists

\* ----------------------------------------------- the persisted metadata file
Missing == [kind |-> "missing"]
Truncated == [kind |-> "empty"]
Full(D) == [kind |-> "json", map |-> D]

\* bytes that are not JSON, and the JSON text [] that is no object
Garbled == [kind |-> "garbled"]
JsonArray == [kind |-> "array"]

\* the Python list []: it answers 'in' like an empty dict, and has neither
\* items(), keys() nor assignment by name
EmptyList == [order |-> <<>>, val |-> [n \in Names |-> NoRec], list |-> TRUE]
IsList(D) == "list" \in DOMAIN D

\* _load_metadata: json.load gives back whatever value the text holds
LoadMetadata(p) ==
    CASE p.kind = "json" -> p.map
      [] p.kind = "array" -> EmptyList
      [] OTHER -> EmptyDict

\* ------------------------------------------------------- check_duplicate
FirstWithHashAfterFirst(D, h) ==
    LET idx == {i \in 2..Len(D.order) : Get(D, D.order[i]).hash = h}
    IN IF idx = {} THEN 0 ELSE CHOOSE i \in idx : \A j \in idx : i <= j

FirstWithHash(D, h) ==
    LET idx == {i \in 1..Len(D.order) : Get(D, D.order[i]).hash = h}
    IN IF idx = {} THEN 0 ELSE CHOOSE i \in idx : \A j \in idx : i <= j

CheckDuplicateNoFirstLoop(D, f, c) ==
    IF Has(D, f) /\ Get(D, f).hash = Digest(c)
    THEN [is_duplicate |-> TRUE, existing_file |-> f,
          upload_date |-> Get(D, f).upload_date,
          file_size |-> Get(D, f).file_size, same_name |-> TRUE]
    ELSE [is_duplicate |-> FALSE]

CheckDuplicate(D, f, c) ==
    LET h == Digest(c)
        i == FirstWithHash(D, h)
    IN IF i # 0
       THEN [is_duplicate |-> TRUE, existing_file |-> D.order[i],
             upload_date |-> Get(D, D.order[i]).upload_date,
             file_size |-> Get(D, D.order[i]).file_size]
       ELSE IF Has(D, f) /\ Get(D, f).hash = h
       THEN [is_duplicate |-> TRUE, existing_file |-> f,
             upload_date |-> Get(D, f).upload_date,
             file_size |-> Get(D, f).file_size, same_name |-> TRUE]
       ELSE [is_duplicate |-> FALSE]

\* ------------------------------------------------------- worlds and frames
NoCall == [op |-> "none"]
NoLoc == [scan |-> <<>>, new_files |-> <<>>, synced |-> 0, removed |-> 0,
          content |-> <<>>, fault |-> "none"]
NoRet == [returned |-> FALSE]
IdleFrame == [pc |-> "idle", call |-> NoCall, loc |-> NoLoc, ret |-> NoRet]

At(W, L, l) == [w |-> W, l |-> [L EXCEPT !.pc = l]]
Done(W, L, r) == [w |-> W, l |-> [L EXCEPT !.pc = "done", !.ret = r]]

\* ----------------------------------------------------------- add_document
AddFailure == [returned |-> TRUE, success |-> FALSE, message |-> "Error saving file"]

AddCheckRejectsTracked(W, L) ==
    LET dup == CheckDuplicate(W.metadata, L.call.filename, L.call.file_content)
    IN IF (dup.is_duplicate \/ Has(W.metadata, L.call.filename)) /\ ~L.call.force_overwrite
       THEN Done(W, L, [returned |-> TRUE, success |-> FALSE,
                        message |-> "Duplicate file detected",
                        duplicate_info |-> dup])
       ELSE At(W, L, "add_open")

AddCheckNoReturn(W, L) == At(W, L, "add_open")

\* duplicate_check = self.check_duplicate(...); the early return
AddCheck(W, L) ==
    LET dup == CheckDuplicate(W.metadata, L.call.filename, L.call.file_content)
    IN IF dup.is_duplicate /\ ~L.call.force_overwrite
       THEN Done(W, L, [returned |-> TRUE, success |-> FALSE,
                        message |-> "Duplicate file detected",
                        duplicate_info |-> dup])
       ELSE At(W, L, "add_open")

\* open(file_path, 'wb') creates the file or truncates it
AddOpen(W, L) ==
    At([W EXCEPT !.files[L.call.filename] = File(<<>>, W.now)], L, "add_write")

AddWriteSkipped(W, L) == At(W, L, "add_meta")

\* f.write(file_content) and close; a file unlinked meanwhile stays unlinked
AddWrite(W, L) ==
    At(IF Exists(W.files, L.call.filename)
       THEN [W EXCEPT !.files[L.call.filename] = File(L.call.file_content, W.now)]
       ELSE W,
       L, "add_meta")

AddMetaAlone(W, L) ==
    At([W EXCEPT !.metadata =
           Put(EmptyDict, L.call.filename,
               UploadedRecord(L.call.filename, L.call.file_content, W.now)),
                 !.recreated = {}],
       L, "save_open")

AddMetaKeepsOrigin(W, L) ==
    At([W EXCEPT !.metadata =
           Put(@, L.call.filename,
               [UploadedRecord(L.call.filename, L.call.file_content, W.now)
                   EXCEPT !.synced = Get(W.metadata, L.call.filename) # NoRec
                                     /\ Get(W.metadata, L.call.filename).synced]),
                 !.recreated = @ \ {L.call.filename}],
       L, "save_open")

\* self.metadata[filename] = {...}
AddMeta(W, L) ==
    At([W EXCEPT !.metadata = Put(@, L.call.filename,
                                  UploadedRecord(L.call.filename, L.call.file_content, W.now)),
                 !.recreated = @ \ {L.call.filename}],
       L, "save_open")

\* ---------------------------------------------------------- _save_metadata
\* open(self.metadata_file, 'w') truncates the file in place
SaveOpen(W, L) == At([W EXCEPT !.persisted = Truncated], L, "save_dump")

RECURSIVE SumSizes(_, _)
SumSizes(D, s) ==
    IF s = <<>> THEN 0
    ELSE (IF Get(D, Head(s)).status = "active" THEN Get(D, Head(s)).file_size ELSE 0)
         + SumSizes(D, Tail(s))

\* 1024 * 1024
BytesPerMB == 1048576

RoundDown(num, den) == num \div den

\* the integer nearest to num / den, a tie going to the even one, as round() does
RoundHalfEven(num, den) ==
    LET q == num \div den
        r == num % den
    IN IF 2 * r < den THEN q
       ELSE IF 2 * r > den THEN q + 1
       ELSE IF q % 2 = 0 THEN q ELSE q + 1

\* round(num / den, 2), held as a number of hundredths
Round2(num, den) == [hundredths |-> RoundHalfEven(100 * num, den)]

StorageStatsLastSize(D) ==
    LET file_count == Cardinality({f \in Keys(D) : Get(D, f).status = "active"})
        total_size == IF D.order = <<>> THEN 0 ELSE Get(D, D.order[Len(D.order)]).file_size
    IN [returned |-> TRUE,
        total_files |-> file_count,
        total_size_bytes |-> total_size,
        total_size_mb |-> Round2(total_size, BytesPerMB),
        average_file_size_mb |-> IF file_count > 0
                                 THEN Round2(total_size, file_count * BytesPerMB)
                                 ELSE [hundredths |-> 0]]

\* get_storage_stats, after its sync_with_filesystem call; dividing the mean
\* by 2^20 is exact, so (total_size / file_count) / 2^20 rounds as the quotient
\* total_size / (file_count * 2^20) does
StorageStats(D) ==
    LET file_count == Cardinality({f \in Keys(D) : Get(D, f).status = "active"})
        total_size == SumSizes(D, D.order)
    IN [returned |-> TRUE,
        total_files |-> file_count,
        total_size_bytes |-> total_size,
        total_size_mb |-> Round2(total_size, BytesPerMB),
        average_file_size_mb |-> IF file_count > 0
                                 THEN Round2(total_size, file_count * BytesPerMB)
                                 ELSE [hundredths |-> 0]]

SyncResultRemovedAsNew(l) ==
    [returned |-> TRUE, synced_files |-> l.synced, new_files |-> Len(l.new_files),
     removed_files |-> Len(l.new_files), new_file_names |-> l.new_files]

SyncResult(l) ==
    [returned |-> TRUE, synced_files |-> l.synced, new_files |-> Len(l.new_files),
     removed_files |-> l.removed, new_file_names |-> l.new_files]

RemoveSuccess == [returned |-> TRUE, success |-> TRUE, message |-> "removed successfully"]
RemoveFailure == [returned |-> TRUE, success |-> FALSE, message |-> "Error removing file"]

\* what the handler returns once _save_metadata has returned
AfterSave(W, L) ==
    CASE L.call.op = "add" ->
           IF Has(W.metadata, L.call.filename)
           THEN [returned |-> TRUE, success |-> TRUE, message |-> "uploaded successfully",
                 file_info |-> Get(W.metadata, L.call.filename)]
           ELSE AddFailure
      [] L.call.op = "remove" -> RemoveSuccess
      [] L.call.op = "sync" -> SyncResult(L.loc)
      [] L.call.op = "stats" -> StorageStats(W.metadata)

\* json.dump(self.metadata, f) and close
SaveDump(W, L) ==
    LET V == [W EXCEPT !.persisted = Full(W.metadata)]
    IN Done(V, L, AfterSave(V, L))

\* -------------------------------------------------------- remove_document
RmUnlinkStrict(W, L) ==
    IF Exists(W.files, L.call.filename)
    THEN At([W EXCEPT !.files[L.call.filename] = NoFile, !.unreadable = @ \ {L.call.filename}],
            L, "rm_meta")
    ELSE Done(W, L, RemoveFailure)

\* if file_path.exists(): file_path.unlink()
RmUnlink(W, L) ==
    At([W EXCEPT !.files[L.call.filename] = NoFile, !.unreadable = @ \ {L.call.filename}],
       L, "rm_meta")

RmMetaUnsaved(W, L) ==
    IF Has(W.metadata, L.call.filename)
    THEN Done([W EXCEPT !.metadata = Del(@, L.call.filename),
                        !.recreated = @ \ {L.call.filename}],
              L, RemoveSuccess)
    ELSE Done(W, L, RemoveSuccess)

\* if filename in self.metadata: del ...; self._save_metadata()
RmMeta(W, L) ==
    IF Has(W.metadata, L.call.filename)
    THEN At([W EXCEPT !.metadata = Del(@, L.call.filename), !.recreated = @ \ {L.call.filename}],
            L, "save_open")
    ELSE Done(W, L, RemoveSuccess)

\* --------------------------------------------------- sync_with_filesystem
\* filename.endswith('_metadata.json'): the suffix is .json and the stem ends
\* with _metadata
EndsWithMetadataJson(n) == n[2] = ".json" /\ n[1] \in MetadataStems

ScanPc(scan) == IF scan = <<>> THEN "sync_remove" ELSE "sync_scan"
\* next turn of the loop over glob('*')
Continue(W, L, l) ==
    [w |-> W, l |-> [L EXCEPT !.loc = [l EXCEPT !.scan = Tail(l.scan)],
                              !.pc = ScanPc(Tail(l.scan))]]

SyncScanAlwaysNew(W, L) ==
    LET g == Head(L.loc.scan)
    IN IF Exists(W.files, g) /\ Recognized(g) /\ ~EndsWithMetadataJson(g)
       THEN At(W, L, "sync_read")
       ELSE Continue(W, L, L.loc)

\* one turn of the loop, up to the read of an untracked file
SyncScan(W, L) ==
    LET g == Head(L.loc.scan)
    IN IF Exists(W.files, g) /\ Recognized(g) /\ ~EndsWithMetadataJson(g)
       THEN IF ~Has(W.metadata, g)
            THEN At(W, L, "sync_read")
            ELSE Continue(W, L, [L.loc EXCEPT !.synced = @ + 1])
       ELSE Continue(W, L, L.loc)

SyncReadFatal(W, L) ==
    LET g == Head(L.loc.scan)
    IN IF Exists(W.files, g) /\ g \notin W.unreadable
       THEN At(W, [L EXCEPT !.loc.content = W.files[g].content], "sync_put")
       ELSE Done(W, L, [returned |-> FALSE, raised |-> TRUE])

\* open(file_path, 'rb'); f.read(): a failure skips the file for this pass
SyncRead(W, L) ==
    LET g == Head(L.loc.scan)
    IN IF Exists(W.files, g) /\ g \notin W.unreadable
       THEN At(W, [L EXCEPT !.loc.content = W.files[g].content], "sync_put")
       ELSE Continue(W, L, L.loc)

SyncPutDatedNow(W, L) ==
    LET g == Head(L.loc.scan)
    IN IF Exists(W.files, g)
       THEN Continue([W EXCEPT !.metadata =
                          Put(@, g, SyncedRecord(g, L.loc.content, W.now)),
                               !.recreated = @ \ {g}],
                     L,
                     [L.loc EXCEPT !.new_files = Append(@, g), !.synced = @ + 1])
       ELSE Continue(W, L, L.loc)

\* hash, file_path.stat(), self.metadata[filename] = {...}, new_files.append
SyncPut(W, L) ==
    LET g == Head(L.loc.scan)
    IN IF Exists(W.files, g)
       THEN Continue([W EXCEPT !.metadata =
                          Put(@, g, SyncedRecord(g, L.loc.content, W.files[g].mtime)),
                               !.recreated = @ \ {g}],
                     L,
                     [L.loc EXCEPT !.new_files = Append(@, g), !.synced = @ + 1])
       ELSE Continue(W, L, L.loc)

RECURSIVE DelAll(_, _)
DelAll(D, s) == IF s = <<>> THEN D ELSE DelAll(Del(D, Head(s)), Tail(s))

SyncRemoveNothing(W, L) == At(W, L, "save_open")

\* files_to_remove and the deletion of their records
SyncRemove(W, L) ==
    LET gone == SelectSeq(W.metadata.order, LAMBDA f : ~Exists(W.files, f))
    IN At([W EXCEPT !.metadata = DelAll(@, gone), !.recreated = @ \ Range(gone)],
          [L EXCEPT !.loc.removed = Len(gone)], "save_open")

\* ------------------------------------------------- cleanup_orphaned_files
\* the first loop: orphaned_files
CleanupList(W, L) ==
    At(W, [L EXCEPT !.loc.scan =
              SelectSeq(@, LAMBDA n : Exists(W.files, n) /\ ~Has(W.metadata, n)
                                       /\ Recognized(n))],
       "cleanup_unlink")

\* the second loop: unlink each, counting the successes
CleanupUnlink(W, L) ==
    LET there == {n \in Range(L.loc.scan) : Exists(W.files, n)}
    IN Done([W EXCEPT !.files = [n \in DOMAIN @ |-> IF n \in there THEN NoFile ELSE @[n]],
                      !.unreadable = @ \ there,
                      !.persisted = IF there \cap Sidecar(W.files) # {} THEN Missing ELSE @],
            L,
            [returned |-> TRUE, removed_count |-> Cardinality(there),
             orphaned_files |-> L.loc.scan])

\* -------------------------------------------------- check_duplicate (call)
CheckOnlySaves(W, L) ==
    Done([W EXCEPT !.persisted = Full(W.metadata)], L,
         [returned |-> TRUE,
          info |-> CheckDuplicate(W.metadata, L.call.filename, L.call.file_content)])

CheckOnly(W, L) ==
    Done(W, L, [returned |-> TRUE,
                info |-> CheckDuplicate(W.metadata, L.call.filename, L.call.file_content)])

\* ------------------------------------------------------ get_all_documents
\* _get_file_info
GetFileInfo(fs, f) ==
    IF Exists(fs, f)
    THEN [size |-> Len(fs[f].content), modified |-> IsoFormat(fs[f].mtime), exists |-> TRUE]
    ELSE [exists |-> FALSE]

\* doc_info of one record
DocInfo(D, fs, f) ==
    LET info == GetFileInfo(fs, f)
    IN IF info.exists
       THEN [filename |-> f, upload_date |-> Get(D, f).upload_date,
             file_size |-> Get(D, f).file_size, status |-> Get(D, f).status,
             exists |-> TRUE, modified |-> info.modified, current_size |-> info.size]
       ELSE [filename |-> f, upload_date |-> Get(D, f).upload_date,
             file_size |-> Get(D, f).file_size, status |-> Get(D, f).status,
             exists |-> FALSE]

\* documents.sort(key=upload_date, reverse=True): stable, newest first
RECURSIVE InsertByDate(_, _)
InsertByDate(x, s) ==
    IF s = <<>> THEN <<x>>
    ELSE IF Head(s).upload_date.iso >= x.upload_date.iso
    THEN <<Head(s)>> \o InsertByDate(x, Tail(s))
    ELSE <<x>> \o s

RECURSIVE SortNewestFirst(_)
SortNewestFirst(s) ==
    IF s = <<>> THEN <<>>
    ELSE InsertByDate(s[Len(s)], SortNewestFirst(SubSeq(s, 1, Len(s) - 1)))

GetAllDocumentsOnDisk(D, fs) ==
    LET there == SelectSeq(D.order, LAMBDA f : Exists(fs, f))
    IN SortNewestFirst([i \in 1..Len(there) |-> DocInfo(D, fs, there[i])])

GetAllDocuments(D, fs) ==
    SortNewestFirst([i \in 1..Len(D.order) |-> DocInfo(D, fs, D.order[i])])

ListOnly(W, L) ==
    Done(W, L, [returned |-> TRUE, documents |-> GetAllDocuments(W.metadata, W.files)])

\* ----------------------------------------------------- get_document_count
CountOnly(W, L) ==
    Done(W, L, [returned |-> TRUE,
                count |-> Cardinality({f \in Keys(W.metadata) :
                                          Get(W.metadata, f).status = "active"})])

\* ------------------------------------------------------------ the handlers
\* the frame of a call that has just been entered; scan is what glob('*') lists
Enter(c, scan) ==
    [pc |-> CASE c.op = "add" -> "add_check"
              [] c.op = "remove" -> "rm_unlink"
              [] c.op \in {"sync", "stats"} -> ScanPc(scan)
              [] c.op = "cleanup" -> "cleanup_list"
              [] c.op = "check" -> "check"
              [] c.op = "list" -> "list"
              [] c.op = "count" -> "count",
     call |-> c, loc |-> [NoLoc EXCEPT !.scan = scan], ret |-> NoRet]

\* the statements that fail when self.metadata is a list: items() in
\* check_duplicate and get_all_documents and keys() in sync_with_filesystem
\* and get_document_count
\* raise out of the call; the assignment of a new record raises inside the
\* per-file try of sync_with_filesystem, which skips the file
ListFailPcs == {"add_check", "check", "list", "count", "sync_put", "sync_remove"}
Uncaught == [returned |-> FALSE, raised |-> TRUE]
ListStep(W, L) ==
    IF L.pc = "sync_put" THEN Continue(W, L, L.loc) ELSE Done(W, L, Uncaught)

Step(W, L) ==
    IF IsList(W.metadata) /\ L.pc \in ListFailPcs THEN ListStep(W, L) ELSE
    CASE L.pc = "add_check" -> AddCheck(W, L)
      [] L.pc = "add_open" -> AddOpen(W, L)
      [] L.pc = "add_write" -> AddWrite(W, L)
      [] L.pc = "add_meta" -> AddMeta(W, L)
      [] L.pc = "save_open" -> SaveOpen(W, L)
      [] L.pc = "save_dump" -> SaveDump(W, L)
      [] L.pc = "rm_unlink" -> RmUnlink(W, L)
      [] L.pc = "rm_meta" -> RmMeta(W, L)
      [] L.pc = "sync_scan" -> SyncScan(W, L)
      [] L.pc = "sync_read" -> SyncRead(W, L)
      [] L.pc = "sync_put" -> SyncPut(W, L)
      [] L.pc = "sync_remove" -> SyncRemove(W, L)
      [] L.pc = "cleanup_list" -> CleanupList(W, L)
      [] L.pc = "cleanup_unlink" -> CleanupUnlink(W, L)
      [] L.pc = "check" -> CheckOnly(W, L)
      [] L.pc = "list" -> ListOnly(W, L)
      [] L.pc = "count" -> CountOnly(W, L)

\* the whole handler: its steps in order until it returns
RECURSIVE Run(_, _)
Run(W, L) ==
    IF L.pc = "done" THEN [w |-> W, l |-> L]
    ELSE LET r == Step(W, L) IN Run(r.w, r.l)

\* ------------------------------------------------------------------ state
VARIABLES
    files,       \* backing directory: name -> File or NoFile
    unreadable,  \* names whose bytes cannot currently be read
    metadata,    \* self.metadata of the one shared DocumentManager
    persisted,   \* content of the metadata file on disk
    now,         \* wall clock
    recreated,   \* names created from outside while a record for them existed
    pc,          \* per caller: position inside the handler it runs
    call,        \* per caller: handler and arguments
    loc,         \* per caller: the handler's local variables
    ret,         \* per caller: value returned by the handler
    pre,         \* per caller: metadata and metadata file when its call began
    crash,       \* what the last crash interrupted
    ops          \* calls and outside changes so far

world == <<files, unreadable, metadata, persisted, now, recreated>>
vars == <<files, unreadable, metadata, persisted, now, recreated, pc, call, loc,
          ret, pre, crash, ops>>

World == [files |-> files, unreadable |-> unreadable, metadata |-> metadata,
          persisted |-> persisted, now |-> now, recreated |-> recreated]
Frame(t) == [pc |-> pc[t], call |-> call[t], loc |-> loc[t], ret |-> ret[t]]

SetWorld(W) ==
    /\ files' = W.files
    /\ unreadable' = W.unreadable
    /\ metadata' = W.metadata
    /\ persisted' = W.persisted
    /\ now' = W.now
    /\ recreated' = W.recreated
SetFrame(t, L) ==
    /\ pc' = [pc EXCEPT ![t] = L.pc]
    /\ call' = [call EXCEPT ![t] = L.call]
    /\ loc' = [loc EXCEPT ![t] = L.loc]
    /\ ret' = [ret EXCEPT ![t] = L.ret]
ResetFrames ==
    /\ pc' = [t \in Threads |-> "idle"]
    /\ call' = [t \in Threads |-> NoCall]
    /\ loc' = [t \in Threads |-> NoLoc]
    /\ ret' = [t \in Threads |-> NoRet]

Spend == ops < MaxOps /\ ops' = ops + 1

NoPre == [taken |-> FALSE]
NoCrash == [happened |-> FALSE]

Init ==
    /\ files = [n \in Names |-> NoFile]
    /\ unreadable = {}
    /\ metadata = EmptyDict
    /\ persisted = Missing
    /\ now = 0
    /\ recreated = {}
    /\ pc = [t \in Threads |-> "idle"]
    /\ call = [t \in Threads |-> NoCall]
    /\ loc = [t \in Threads |-> NoLoc]
    /\ ret = [t \in Threads |-> NoRet]
    /\ pre = [t \in Threads |-> NoPre]
    /\ crash = NoCrash
    /\ ops = 0

Quiescent == \A t \in Threads : pc[t] \in {"idle", "done"}
Listings == Orderings({n \in DOMAIN files : Exists(files, n)})

\* --------------------------------------- calls that run to completion
Invoke(t, c, scan) ==
    /\ Quiescent
    /\ Spend
    /\ LET r == Run(World, Enter(c, scan))
       IN SetWorld(r.w) /\ SetFrame(t, r.l)
    /\ UNCHANGED <<pre, crash>>

add_document(t, f, c, force) ==
    Invoke(t, [op |-> "add", filename |-> f, file_content |-> c, force_overwrite |-> force], <<>>)
remove_document(t, f) == Invoke(t, [op |-> "remove", filename |-> f], <<>>)
sync_with_filesystem(t) == \E s \in Listings : Invoke(t, [op |-> "sync"], s)
get_storage_stats(t) == \E s \in Listings : Invoke(t, [op |-> "stats"], s)
cleanup_orphaned_files(t) == \E s \in Listings : Invoke(t, [op |-> "cleanup"], s)
check_duplicate(t, f, c) == Invoke(t, [op |-> "check", filename |-> f, file_content |-> c], <<>>)
get_all_documents(t) == Invoke(t, [op |-> "list"], <<>>)
get_document_count(t) == Invoke(t, [op |-> "count"], <<>>)

\* ------------------------------------------------------- the environment
\* changes made to the directory from outside, between calls
ExtCreate(f, c) ==
    /\ Quiescent
    /\ Spend
    /\ ~Exists(files, f)
    /\ files' = [files EXCEPT ![f] = File(c, now)]
    /\ recreated' = IF Has(metadata, f) THEN recreated \cup {f} ELSE recreated
    /\ ResetFrames
    /\ UNCHANGED <<unreadable, metadata, persisted, now, pre, crash>>

ExtDelete(f) ==
    /\ Quiescent
    /\ Spend
    /\ Exists(files, f)
    /\ files' = [files EXCEPT ![f] = NoFile]
    /\ unreadable' = unreadable \ {f}
    /\ ResetFrames
    /\ UNCHANGED <<metadata, persisted, now, recreated, pre, crash>>

\* a file's bytes become unreadable (permissions, I/O error) or readable again
ExtChmod(f) ==
    /\ Quiescent
    /\ Spend
    /\ Exists(files, f)
    /\ unreadable' = IF f \in unreadable THEN unreadable \ {f} ELSE unreadable \cup {f}
    /\ ResetFrames
    /\ UNCHANGED <<files, metadata, persisted, now, recreated, pre, crash>>

Tick ==
    /\ Quiescent
    /\ Spend
    /\ now < MaxClock
    /\ now' = now + 1
    /\ ResetFrames
    /\ UNCHANGED <<files, unreadable, metadata, persisted, recreated, pre, crash>>

\* one caller at a time, no fault: the handlers run to completion in turn
Next ==
    \/ \E f \in Names, c \in Contents, force \in BOOLEAN : add_document(1, f, c, force)
    \/ \E f \in Names : remove_document(1, f)
    \/ sync_with_filesystem(1)
    \/ get_storage_stats(1)
    \/ cleanup_orphaned_files(1)
    \/ \E f \in Names, c \in Contents : check_duplicate(1, f, c)
    \/ get_all_documents(1)
    \/ get_document_count(1)
    \/ \E f \in Names, c \in Contents : ExtCreate(f, c)
    \/ \E f \in Names : ExtDelete(f)
    \/ \E f \in Names : ExtChmod(f)
    \/ Tick

Spec == Init /\ [][Next]_vars

\* ------------------------------------------- calls taken one step at a time
Snapshot == [taken |-> TRUE, files |-> files, metadata |-> metadata,
             persisted |-> persisted]

Begin(t, c, scan) ==
    /\ pc[t] = "idle"
    /\ SetFrame(t, Enter(c, scan))
    /\ pre' = [pre EXCEPT ![t] = Snapshot]
    /\ crash' = NoCrash
    /\ UNCHANGED world

BeginCall(t, limit) ==
    /\ ops < limit
    /\ ops' = ops + 1
    /\ \/ \E f \in Names, c \in Contents, force \in BOOLEAN :
             Begin(t, [op |-> "add", filename |-> f, file_content |-> c, force_overwrite |-> force], <<>>)
       \/ \E f \in Names : Begin(t, [op |-> "remove", filename |-> f], <<>>)
       \/ \E op \in {"sync", "stats", "cleanup"}, s \in Listings :
             Begin(t, [op |-> op], s)

Take(t, r) ==
    /\ SetWorld(r.w)
    /\ SetFrame(t, r.l)
    /\ UNCHANGED <<pre, crash, ops>>

AddPcs == {"add_check", "add_open", "add_write", "add_meta"}
SavePcs == {"save_open", "save_dump"}
RemovePcs == {"rm_unlink", "rm_meta"}
SyncPcs == {"sync_scan", "sync_read", "sync_put", "sync_remove"}
CleanupPcs == {"cleanup_list", "cleanup_unlink"}

AddStep(t) == pc[t] \in AddPcs /\ Take(t, Step(World, Frame(t)))
SaveStep(t) == pc[t] \in SavePcs /\ Take(t, Step(World, Frame(t)))
RemoveStep(t) == pc[t] \in RemovePcs /\ Take(t, Step(World, Frame(t)))
SyncStep(t) == pc[t] \in SyncPcs /\ Take(t, Step(World, Frame(t)))
CleanupStep(t) == pc[t] \in CleanupPcs /\ Take(t, Step(World, Frame(t)))

\* the caller takes the result and is free for its next call
Return(t) ==
    /\ pc[t] = "done"
    /\ SetFrame(t, IdleFrame)
    /\ pre' = [pre EXCEPT ![t] = NoPre]
    /\ UNCHANGED <<world, crash, ops>>

Stepwise(t, limit) ==
    \/ BeginCall(t, limit)
    \/ AddStep(t)
    \/ SaveStep(t)
    \/ RemoveStep(t)
    \/ SyncStep(t)
    \/ CleanupStep(t)
    \/ Return(t)

\* ------------------------------------------------------------- I/O faults
\* the statements of add_document and remove_document that can raise OSError
FaultPoints == {"add_open", "add_write", "rm_unlink", "save_open", "save_dump"}

\* the statement at L.pc raises: add_document and remove_document catch the
\* exception and return a failure, the other handlers let it propagate
Raise(W, L) ==
    Done(W, [L EXCEPT !.loc.fault = L.pc],
         CASE L.call.op = "add" -> AddFailure
           [] L.call.op = "remove" -> RemoveFailure
           [] OTHER -> [returned |-> FALSE, raised |-> TRUE])

Fault(t) ==
    /\ pc[t] \in FaultPoints
    /\ Take(t, Raise(World, Frame(t)))

NextFault ==
    \/ Stepwise(1, MaxOps)
    \/ Fault(1)

SpecFault == Init /\ [][NextFault]_vars

\* ---------------------------------------------------------------- crashes
\* the process dies inside a call; a new DocumentManager loads what is on disk
Crash ==
    /\ \E t \in Threads :
          /\ pc[t] \notin {"idle", "done"}
          /\ crash' = [happened |-> TRUE, pc |-> pc[t], call |-> call[t],
                       pre |-> pre[t], new |-> Full(metadata)]
    /\ metadata' = LoadMetadata(persisted)
    /\ recreated' = {}
    /\ ResetFrames
    /\ pre' = [t \in Threads |-> NoPre]
    /\ UNCHANGED <<files, unreadable, persisted, now, ops>>

NextCrash ==
    \/ Stepwise(1, MaxOps)
    \/ Crash

SpecCrash == Init /\ [][NextCrash]_vars

\* ------------------------------------------------------ concurrent callers
\* the manager is constructed over a directory that may already hold files
InitDir ==
    /\ files \in [Names -> {NoFile} \cup {File(c, 0) : c \in Contents}]
    /\ Cardinality({n \in Names : Exists(files, n)}) <= MaxInitialFiles
    /\ unreadable = {}
    /\ metadata = EmptyDict
    /\ persisted = Missing
    /\ now = 0
    /\ recreated = {}
    /\ pc = [t \in Threads |-> "idle"]
    /\ call = [t \in Threads |-> NoCall]
    /\ loc = [t \in Threads |-> NoLoc]
    /\ ret = [t \in Threads |-> NoRet]
    /\ pre = [t \in Threads |-> NoPre]
    /\ crash = NoCrash
    /\ ops = 0

NextConc == \E t \in Threads : Stepwise(t, MaxConcurrentCalls)

SpecConc == InitDir /\ [][NextConc]_vars

\* ------------------------------------------------ statistics of large files
\* file sizes on either side of a rounding step of 0.01 MB, and on a tie
SizeSamples == {2726, 5243, 7865, 131072}

\* the digest of bytes that are not among Contents
OldDigest(s) == (MaxByte + 1) ^ (MaxLen + 1) + s

\* the record add_document made for an upload of s bytes
LargeRecord(f, s) ==
    [hash |-> OldDigest(s), upload_date |-> IsoFormat(0), file_size |-> s,
     file_path |-> FilePath(f), status |-> "active", synced |-> FALSE]

\* a store whose documents were uploaded with the sizes of SizeSamples and
\* whose files were since replaced from outside: a pass keeps such records
InitStats ==
    /\ \E S \in SUBSET Names :
          \E order \in Orderings(S), sizes \in [S -> SizeSamples] :
              /\ metadata = [order |-> order,
                             val |-> [n \in Names |->
                                         IF n \in S THEN LargeRecord(n, sizes[n]) ELSE NoRec]]
              /\ files = [n \in Names |-> IF n \in S THEN File(<<>>, 0) ELSE NoFile]
              /\ recreated = S
    /\ persisted = Full(metadata)
    /\ unreadable = {}
    /\ now = 0
    /\ pc = [t \in Threads |-> "idle"]
    /\ call = [t \in Threads |-> NoCall]
    /\ loc = [t \in Threads |-> NoLoc]
    /\ ret = [t \in Threads |-> NoRet]
    /\ pre = [t \in Threads |-> NoPre]
    /\ crash = NoCrash
    /\ ops = 0

NextStats == get_storage_stats(1)

SpecStats == InitStats /\ [][NextStats]_vars

\* ------------------------------------------- restarts over a damaged file
\* __init__: a new DocumentManager over the directory as it is
Construct(t) ==
    /\ Quiescent
    /\ Spend
    /\ metadata' = LoadMetadata(persisted)
    /\ recreated' = {f \in recreated : Has(LoadMetadata(persisted), f)}
    /\ pc' = [u \in Threads |-> IF u = t THEN "done" ELSE "idle"]
    /\ call' = [u \in Threads |-> IF u = t THEN [op |-> "init"] ELSE NoCall]
    /\ loc' = [u \in Threads |-> NoLoc]
    /\ ret' = [u \in Threads |-> NoRet]
    /\ UNCHANGED <<files, unreadable, persisted, now, pre, crash>>

\* the metadata file is deleted, emptied or overwritten from outside
ExtWriteMetadata(p) ==
    /\ Quiescent
    /\ Spend
    /\ persisted # p
    /\ persisted' = p
    /\ ResetFrames
    /\ UNCHANGED <<files, unreadable, metadata, now, recreated, pre, crash>>

NextLoad ==
    \/ Next
    \/ \E p \in {Missing, Truncated, Garbled, JsonArray} : ExtWriteMetadata(p)
    \/ Construct(1)

SpecLoad == Init /\ [][NextLoad]_vars

\* ------------------------------------------- the metadata file in the scan
\* a manager constructed with metadata_file = m over a directory that holds
\* the metadata file, with an empty mapping saved in it, and some documents;
\* here the directory lists the metadata file as the entry m
InitSidecar ==
    /\ \E m \in MetadataFileNames,
          d \in [Names -> {NoFile} \cup {File(c, 0) : c \in Contents}] :
          /\ Cardinality({n \in Names : Exists(d, n)}) <= MaxInitialFiles
          /\ files = [n \in Names \cup {m} |->
                         IF n = m THEN File(EmptyJsonText, 0) ELSE d[n]]
          /\ metadata = [order |-> <<>>, val |-> [n \in Names \cup {m} |-> NoRec]]
    /\ persisted = Full(metadata)
    /\ unreadable = {}
    /\ now = 0
    /\ recreated = {}
    /\ pc = [t \in Threads |-> "idle"]
    /\ call = [t \in Threads |-> NoCall]
    /\ loc = [t \in Threads |-> NoLoc]
    /\ ret = [t \in Threads |-> NoRet]
    /\ pre = [t \in Threads |-> NoPre]
    /\ crash = NoCrash
    /\ ops = 0

\* the first call on that manager
NextSidecar ==
    \/ ops = 0 /\ sync_with_filesystem(1)
    \/ ops = 0 /\ cleanup_orphaned_files(1)

SpecSidecar == InitSidecar /\ [][NextSidecar]_vars

\* =================================================================== claims
\* a step of Spec in which caller 1 made the call op
Called(op) == ops' = ops + 1 /\ call'[1].op = op
Returned(op) == pc[1] = "done" /\ call[1].op = op

HashMatches(D, fs, f) ==
    /\ Get(D, f).hash = Digest(fs[f].content)
    /\ Get(D, f).file_size = Len(fs[f].content)

\* C1 as stated: in every state reached by add_document, remove_document,
\* sync_with_filesystem, get_storage_stats, cleanup_orphaned_files and outside
\* creation/deletion of files, every record whose backing file exists has the
\* hash and size of the file's current bytes.
C1_HashAlwaysCurrent ==
    \A f \in Names :
        Has(metadata, f) /\ Exists(files, f) => HashMatches(metadata, files, f)

\* C1 amended: the same, for every record whose backing file was not created
\* from outside while the record already existed.
C1_HashCurrentUnlessRecreated ==
    \A f \in Names :
        Has(metadata, f) /\ Exists(files, f) /\ f \notin recreated
            => HashMatches(metadata, files, f)

C1_Witness ==
    /\ recreated # {}
    /\ \E f \in Names : Has(metadata, f) /\ Exists(files, f) /\ f \notin recreated

\* C6: add_document without force_overwrite on a (filename, content) that
\* check_duplicate reports as duplicate returns success=False with that
\* duplicate info and changes neither the directory nor the in-memory nor the
\* persisted metadata.
C6_DuplicateRejectedNoSideEffects ==
    [][\A f \in Names, c \in Contents :
          ( /\ Called("add")
            /\ call'[1].filename = f /\ call'[1].file_content = c /\ ~call'[1].force_overwrite
            /\ CheckDuplicate(metadata, f, c).is_duplicate )
          => /\ ret'[1].success = FALSE
             /\ ret'[1].duplicate_info = CheckDuplicate(metadata, f, c)
             /\ files' = files
             /\ metadata' = metadata
             /\ persisted' = persisted]_vars

C6_Witness ==
    /\ Returned("add")
    /\ ~call[1].force_overwrite
    /\ ret[1].success = FALSE
    /\ ret[1].duplicate_info.is_duplicate
    /\ Exists(files, ret[1].duplicate_info.existing_file)

\* C8 as stated: right after sync_with_filesystem returns, the store holds a
\* record for f if and only if a backing file named f existed in the directory.
C8_RecordIffFile ==
    [][Called("sync") =>
          \A f \in Names : Has(metadata', f) <=> Exists(files, f)]_vars

\* C8 amended: right after sync_with_filesystem returns, the store holds a
\* record for f if and only if a backing file named f existed in the directory
\* and f either was tracked before the pass or has a recognized extension and
\* could be read.
C8_RecordIffFileTrackedOrReadable ==
    [][Called("sync") =>
          \A f \in Names :
              Has(metadata', f) <=>
                  /\ Exists(files, f)
                  /\ \/ Has(metadata, f)
                     \/ Recognized(f) /\ f \notin unreadable]_vars

C8_Witness ==
    /\ Returned("sync")
    /\ ret[1].new_files > 0
    /\ \E f \in Names : Has(metadata, f) /\ Exists(files, f)
    /\ \E f \in Names : Exists(files, f) /\ ~Has(metadata, f)

\* C9: while the record of a successful add_document(f1, c) is in the store,
\* add_document(f2, c) with f2 # f1 and no force_overwrite returns
\* success=False, is_duplicate true, citing an existing record whose hash is
\* digest(c), and creates neither a record nor a file for f2.
C9_SecondNameRejected ==
    [][\A f1 \in Names, f2 \in Names, c \in Contents :
          ( /\ Called("add")
            /\ call'[1].filename = f2 /\ call'[1].file_content = c /\ ~call'[1].force_overwrite
            /\ f1 # f2
            /\ Has(metadata, f1)
            /\ ~Get(metadata, f1).synced
            /\ Get(metadata, f1).hash = Digest(c) )
          => /\ ret'[1].success = FALSE
             /\ ret'[1].duplicate_info.is_duplicate
             /\ Has(metadata, ret'[1].duplicate_info.existing_file)
             /\ Get(metadata, ret'[1].duplicate_info.existing_file).hash = Digest(c)
             /\ Has(metadata', f2) <=> Has(metadata, f2)
             /\ Exists(files', f2) <=> Exists(files, f2)
             /\ files'[f2] = files[f2]
             /\ Get(metadata', f2) = Get(metadata, f2)]_vars

C9_Witness ==
    /\ Returned("add")
    /\ ~call[1].force_overwrite
    /\ ret[1].success = FALSE
    /\ ret[1].duplicate_info.existing_file # call[1].filename
    /\ ~Has(metadata, call[1].filename)
    /\ ~Exists(files, call[1].filename)
    /\ ~Get(metadata, ret[1].duplicate_info.existing_file).synced

\* C10: when a record exists under filename f with hash digest(c),
\* check_duplicate(f, c), and the rejection of add_document(f, c) without
\* force, report a duplicate carrying same_name = true.
C10_SameNameFlag ==
    /\ ( /\ Returned("check")
         /\ Has(metadata, call[1].filename)
         /\ Get(metadata, call[1].filename).hash = Digest(call[1].file_content) )
       => /\ ret[1].info.is_duplicate
          /\ "same_name" \in DOMAIN ret[1].info
          /\ ret[1].info.same_name
    /\ ( /\ Returned("add")
         /\ ~call[1].force_overwrite
         /\ ret[1].success = FALSE
         /\ Has(metadata, call[1].filename)
         /\ Get(metadata, call[1].filename).hash = Digest(call[1].file_content) )
       => /\ ret[1].duplicate_info.is_duplicate
          /\ "same_name" \in DOMAIN ret[1].duplicate_info
          /\ ret[1].duplicate_info.same_name

\* what a DocumentManager started on the disk state (fs, p) would hold
DiskConsistent(fs, p) ==
    \A f \in Names :
        Has(LoadMetadata(p), f) /\ Exists(fs, f) => HashMatches(LoadMetadata(p), fs, f)

\* C2: when add_document is interrupted by a crash between any two of its
\* steps, no persisted record points at an existing file whose bytes have
\* another hash or size than the record states (the disk was consistent when
\* the call began).
C2_CrashLeavesRecordsMatching ==
    ( /\ crash.happened
      /\ crash.call.op = "add"
      /\ DiskConsistent(crash.pre.files, crash.pre.persisted) )
    => DiskConsistent(files, persisted)

\* C3: when _save_metadata is interrupted while the metadata file holds a
\* complete mapping, the file afterwards holds either the complete new mapping
\* or that complete previous one, never an empty or partial one.
C3_SaveIsAtomic ==
    ( /\ crash.happened
      /\ crash.pc \in SavePcs
      /\ crash.pre.persisted.kind = "json" )
    => persisted = crash.new \/ persisted = crash.pre.persisted

\* C4: once concurrent add_document, remove_document and sync_with_filesystem
\* calls on the shared manager have all finished, every record whose file
\* exists has the hash and size of that file's bytes.
C4_NoTornStateAfterConcurrentCalls ==
    (\A t \in Threads : pc[t] \in {"idle", "done"})
    => \A f \in Names :
          Has(metadata, f) /\ Exists(files, f) => HashMatches(metadata, files, f)

\* C5: two concurrent sync_with_filesystem calls that both began while file f
\* was present and untracked do not both report f in new_file_names.
C5_NewFileReportedOnce ==
    \A t \in Threads, u \in Threads, f \in Names :
        ( /\ t # u
          /\ pc[t] = "done" /\ call[t].op = "sync"
          /\ pc[u] = "done" /\ call[u].op = "sync"
          /\ Exists(pre[t].files, f) /\ ~Has(pre[t].metadata, f)
          /\ Exists(pre[u].files, f) /\ ~Has(pre[u].metadata, f) )
        => ~(f \in Range(ret[t].new_file_names) /\ f \in Range(ret[u].new_file_names))

\* C7: when a file write, file delete or metadata write fails inside
\* add_document or remove_document, the call returns a failure and the
\* in-memory and the persisted mapping are what they were when it began.
C7_FaultCommitsNothing ==
    ( /\ pc[1] = "done"
      /\ call[1].op \in {"add", "remove"}
      /\ loc[1].fault # "none" )
    => /\ ret[1].success = FALSE
       /\ metadata = pre[1].metadata
       /\ persisted = pre[1].persisted

\* C11: add_document(f, c, force_overwrite=True) succeeds whatever the store
\* holds; afterwards file f holds c and the record of f, in memory and in the
\* metadata file, has hash digest(c), size len(c), the time of the call as
\* upload date, status active and no synced flag.
C11_ForcedAddReplacesRecord ==
    [][\A f \in Names, c \in Contents :
          ( /\ Called("add")
            /\ call'[1].filename = f /\ call'[1].file_content = c
            /\ call'[1].force_overwrite )
          => /\ ret'[1].success = TRUE
             /\ Exists(files', f)
             /\ files'[f].content = c
             /\ Has(metadata', f)
             /\ Get(metadata', f).hash = Digest(c)
             /\ Get(metadata', f).file_size = Len(c)
             /\ Get(metadata', f).upload_date = IsoFormat(now)
             /\ Get(metadata', f).status = "active"
             /\ ~Get(metadata', f).synced
             /\ persisted'.kind = "json"
             /\ Get(persisted'.map, f) = Get(metadata', f)]_vars

\* a forced add of bytes that another name already holds
C11_Witness ==
    /\ Returned("add")
    /\ call[1].force_overwrite
    /\ ret[1].success = TRUE
    /\ \E g \in Names :
          /\ g # call[1].filename
          /\ Has(metadata, g)
          /\ Get(metadata, g).hash = Digest(call[1].file_content)

\* C12: remove_document(f) returns success from any state, leaves f absent
\* from the directory and from the metadata, and the same call made again
\* right away returns success and changes nothing.
C12_RemoveIdempotent ==
    Returned("remove") =>
        LET f == call[1].filename
            again == Run(World, Enter([op |-> "remove", filename |-> f], <<>>))
        IN /\ ret[1].success = TRUE
           /\ ~Exists(files, f)
           /\ ~Has(metadata, f)
           /\ ~Has(LoadMetadata(persisted), f)
           /\ again.l.ret.success = TRUE
           /\ again.w = World

\* a removal that returned while the store still tracks another document
C12_Witness ==
    /\ Returned("remove")
    /\ ret[1].success = TRUE
    /\ persisted.kind = "json"
    /\ \E g \in Names : Has(metadata, g) /\ Exists(files, g)

\* C13: a sync_with_filesystem call made right after another, with no change
\* to the directory in between, reports new_files = 0 and removed_files = 0
\* and leaves the metadata mapping identical, also when the first pass met a
\* file it could not read.
C13_SecondSyncIsNoOp ==
    Returned("sync") =>
        \A s \in Listings :
            LET again == Run(World, Enter([op |-> "sync"], s))
            IN /\ again.l.ret.new_files = 0
               /\ again.l.ret.new_file_names = <<>>
               /\ again.l.ret.removed_files = 0
               /\ again.w.metadata = metadata
               /\ LoadMetadata(again.w.persisted) = metadata

\* a pass that took a new file in and skipped an unreadable one
C13_Witness ==
    /\ Returned("sync")
    /\ ret[1].new_files > 0
    /\ \E f \in unreadable : Exists(files, f) /\ Recognized(f) /\ ~Has(metadata, f)

\* C14: when the file of a tracked document has been deleted from outside,
\* the next sync_with_filesystem deletes its record outright, in memory and in
\* the metadata file, counts it in removed_files, stores no 'missing' status,
\* and the name no longer appears in get_all_documents.
C14_VanishedFileRecordDeleted ==
    [][Called("sync") =>
          LET gone == {f \in Names : Has(metadata, f) /\ ~Exists(files, f)}
              listing == GetAllDocuments(metadata', files')
          IN /\ ret'[1].removed_files = Cardinality(gone)
             /\ \A f \in gone :
                   /\ ~Has(metadata', f)
                   /\ ~Has(LoadMetadata(persisted'), f)
                   /\ \A i \in DOMAIN listing : listing[i].filename # f
             /\ \A f \in Names :
                   Has(metadata', f) => Get(metadata', f).status = "active"]_vars

\* a pass that removed a record while another document stays listed
C14_Witness ==
    /\ Returned("sync")
    /\ ret[1].removed_files > 0
    /\ GetAllDocuments(metadata, files) # <<>>

RECURSIVE SizeOfAll(_, _)
SizeOfAll(D, S) ==
    IF S = {} THEN 0
    ELSE LET f == CHOOSE x \in S : TRUE
         IN Get(D, f).file_size + SizeOfAll(D, S \ {f})

\* C15: get_storage_stats reconciles with the directory first: total_files
\* and total_size_bytes are the number and the summed file_size of the active
\* records left after that pass, each of which has an existing file; a record
\* whose file vanished is not counted and an untracked readable document file
\* that appeared is.
C15_StatsCountReconciledRecords ==
    [][Called("stats") =>
          LET live == {f \in Names : Has(metadata', f)}
          IN /\ \A f \in live : Exists(files', f) /\ Get(metadata', f).status = "active"
             /\ ret'[1].total_files = Cardinality(live)
             /\ ret'[1].total_size_bytes = SizeOfAll(metadata', live)
             /\ \A f \in Names :
                   Has(metadata, f) /\ ~Exists(files, f) => f \notin live
             /\ \A f \in Names :
                   ( /\ ~Has(metadata, f) /\ Exists(files, f)
                     /\ Recognized(f) /\ f \notin unreadable )
                   => f \in live]_vars

\* statistics that count an uploaded document and one the pass took in
C15_Witness ==
    /\ Returned("stats")
    /\ ret[1].total_files > 1
    /\ ret[1].total_size_bytes > 1
    /\ \E f \in Names : Has(metadata, f) /\ Get(metadata, f).synced
    /\ \E f \in Names : Has(metadata, f) /\ ~Get(metadata, f).synced

\* h hundredths is num / den rounded to 2 decimals
IsRounded2(h, num, den) ==
    LET off == IF 100 * num >= h * den THEN 100 * num - h * den ELSE h * den - 100 * num
    IN /\ 2 * off <= den
       /\ 2 * off = den => h % 2 = 0

\* C16 as stated: get_storage_stats returns total_size_mb equal to the summed
\* file_size of the active records divided by 1,048,576 and rounded to 2
\* decimals, and average_file_size_mb equal to total_size_mb divided by the
\* record count, 0 when the count is 0.
C16_AverageIsTotalMBOverCount ==
    Returned("stats") =>
        LET total == SizeOfAll(metadata, Keys(metadata))
            count == Cardinality(Keys(metadata))
        IN /\ IsRounded2(ret[1].total_size_mb.hundredths, total, BytesPerMB)
           /\ count = 0 => ret[1].average_file_size_mb.hundredths = 0
           /\ count > 0 => ret[1].average_file_size_mb.hundredths * count
                              = ret[1].total_size_mb.hundredths

\* C16 amended: get_storage_stats returns total_size_mb equal to the summed
\* file_size of the active records divided by 1,048,576 and rounded to 2
\* decimals, and average_file_size_mb equal to that sum divided by the record
\* count and by 1,048,576 and then rounded to 2 decimals, 0 when the count is 0.
C16_AverageIsRoundedMean ==
    Returned("stats") =>
        LET total == SizeOfAll(metadata, Keys(metadata))
            count == Cardinality(Keys(metadata))
        IN /\ ret[1].total_files = count
           /\ ret[1].total_size_bytes = total
           /\ IsRounded2(ret[1].total_size_mb.hundredths, total, BytesPerMB)
           /\ count = 0 => ret[1].average_file_size_mb.hundredths = 0
           /\ count > 0 => IsRounded2(ret[1].average_file_size_mb.hundredths,
                                      total, count * BytesPerMB)

\* statistics whose rounded mean is not the rounded total over the count
C16_Witness ==
    /\ Returned("stats")
    /\ ret[1].total_files > 1
    /\ ret[1].total_size_mb.hundredths > 0
    /\ ret[1].average_file_size_mb.hundredths * ret[1].total_files
          # ret[1].total_size_mb.hundredths

\* C17: check_duplicate only reads: the directory, the in-memory metadata and
\* the metadata file are after the call what they were before it, whatever it
\* returns.
C17_CheckDuplicateReadOnly ==
    [][Called("check") =>
          /\ files' = files
          /\ unreadable' = unreadable
          /\ metadata' = metadata
          /\ persisted' = persisted]_vars

\* a check that found a duplicate in a store with a document on disk
C17_Witness ==
    /\ Returned("check")
    /\ ret[1].info.is_duplicate
    /\ \E f \in Names : Exists(files, f) /\ Has(metadata, f)

\* the directory and the store right after a step
WorldAfter == [files |-> files', unreadable |-> unreadable', metadata |-> metadata',
               persisted |-> persisted', now |-> now', recreated |-> recreated']

\* C18: a DocumentManager constructed while the metadata file is missing or
\* malformed (truncated, not JSON, or JSON that is not an object) holds an
\* empty mapping, and its later operations run normally: a
\* sync_with_filesystem returns its result and an add_document succeeds.
C18_LoadOfMalformedFileIsEmpty ==
    [][Called("init") /\ persisted.kind # "json" =>
          /\ metadata' = EmptyDict
          /\ \A s \in Listings :
                Run(WorldAfter, Enter([op |-> "sync"], s)).l.ret.returned
          /\ \A f \in Names, c \in Contents :
                LET r == Run(WorldAfter,
                             Enter([op |-> "add", filename |-> f, file_content |-> c,
                                    force_overwrite |-> TRUE], <<>>)).l.ret
                IN r.returned /\ r.success]_vars

\* C19: when sync_with_filesystem cannot read an untracked document file, the
\* pass still returns its result, inserts a record for every other untracked
\* readable document file, creates none for the failed file and changes no
\* record that was there (a record goes only if its own file is gone); a pass
\* made once the file can be read inserts it.
C19_UnreadableFileSkippedAndRetried ==
    [][Called("sync") =>
          LET failed == {f \in Names : /\ Exists(files, f) /\ Recognized(f)
                                       /\ ~Has(metadata, f) /\ f \in unreadable}
          IN failed # {} =>
             /\ ret'[1].returned
             /\ \A f \in Names :
                   ( /\ Exists(files, f) /\ Recognized(f)
                     /\ ~Has(metadata, f) /\ f \notin unreadable )
                   => /\ Has(metadata', f)
                      /\ f \in Range(ret'[1].new_file_names)
             /\ \A f \in failed :
                   /\ ~Has(metadata', f)
                   /\ f \notin Range(ret'[1].new_file_names)
             /\ \A f \in Names :
                   Has(metadata, f) =>
                       \/ Get(metadata', f) = Get(metadata, f)
                       \/ ~Exists(files, f) /\ ~Has(metadata', f)
             /\ \A f \in failed, s \in Listings :
                   LET later == Run([WorldAfter EXCEPT !.unreadable = @ \ {f}],
                                    Enter([op |-> "sync"], s))
                   IN /\ Has(later.w.metadata, f)
                      /\ f \in Range(later.l.ret.new_file_names)]_vars

\* a pass that skipped one unreadable file and took exactly one other in
C19_Witness ==
    /\ Returned("sync")
    /\ ret[1].new_files = 1
    /\ ret[1].synced_files = 1
    /\ \E f \in unreadable : Exists(files, f) /\ Recognized(f) /\ ~Has(metadata, f)
    /\ \E g \in Names : Has(metadata, g) /\ Get(metadata, g).synced /\ g \notin unreadable

\* C20: check_duplicate(filename, content) reports is_duplicate exactly when
\* some record of the store has the hash digest(content), whatever the
\* filename given and whether or not that record's file exists; existing_file
\* then names such a record.
C20_DuplicateIffHashTracked ==
    [][Called("check") =>
          LET same == {g \in Names : /\ Has(metadata, g)
                                     /\ Get(metadata, g).hash = Digest(call'[1].file_content)}
          IN /\ ret'[1].info.is_duplicate <=> same # {}
             /\ ret'[1].info.is_duplicate => ret'[1].info.existing_file \in same]_vars

\* a duplicate found under another name whose file is gone
C20_Witness ==
    /\ Returned("check")
    /\ ret[1].info.is_duplicate
    /\ ret[1].info.existing_file # call[1].filename
    /\ ~Exists(files, ret[1].info.existing_file)

\* C21: for every untracked file with a recognized extension that
\* sync_with_filesystem can read, the pass inserts a record whose hash is the
\* digest of the file's bytes, whose file_size is their length, whose upload
\* date is the file's modification time, with status active and the synced
\* flag, and lists the filename in new_file_names.
C21_UntrackedFileInserted ==
    [][Called("sync") =>
          \A f \in Names :
              ( /\ Exists(files, f) /\ Recognized(f)
                /\ ~Has(metadata, f) /\ f \notin unreadable )
              => /\ Has(metadata', f)
                 /\ Get(metadata', f).hash = Digest(files[f].content)
                 /\ Get(metadata', f).file_size = Len(files[f].content)
                 /\ Get(metadata', f).upload_date = IsoFormat(files[f].mtime)
                 /\ Get(metadata', f).file_path = FilePath(f)
                 /\ Get(metadata', f).status = "active"
                 /\ Get(metadata', f).synced
                 /\ f \in Range(ret'[1].new_file_names)
                 /\ Get(LoadMetadata(persisted'), f) = Get(metadata', f)]_vars

\* a pass that took in a file last modified before the time of the pass
C21_Witness ==
    /\ Returned("sync")
    /\ \E f \in Range(ret[1].new_file_names) :
          /\ Get(metadata, f).synced
          /\ Exists(files, f)
          /\ files[f].mtime < now
          /\ Len(files[f].content) > 0

\* C22: sync_with_filesystem leaves the record of every tracked file whose
\* backing file still exists exactly as it was (hash, size, upload date, path,
\* status, synced flag), also when the bytes on disk no longer have the
\* recorded hash.
C22_TrackedRecordUntouched ==
    [][Called("sync") =>
          \A f \in Names :
              Has(metadata, f) /\ Exists(files, f)
              => /\ Get(metadata', f) = Get(metadata, f)
                 /\ Get(LoadMetadata(persisted'), f) = Get(metadata, f)]_vars

\* a pass over a tracked file whose bytes differ from the recorded hash
C22_Witness ==
    /\ Returned("sync")
    /\ \E f \in Names :
          /\ Has(metadata, f)
          /\ Exists(files, f)
          /\ Get(metadata, f).hash # Digest(files[f].content)

\* what the result of a pass has to say about the records it made and deleted
SyncCountsMatch ==
    /\ ret'[1].new_files = Len(ret'[1].new_file_names)
    /\ Range(ret'[1].new_file_names) = Keys(metadata') \ Keys(metadata)
    /\ ret'[1].new_files = Cardinality(Keys(metadata') \ Keys(metadata))
    /\ ret'[1].removed_files = Cardinality(Keys(metadata) \ Keys(metadata'))
    /\ Cardinality(Keys(metadata')) =
          Cardinality(Keys(metadata)) + ret'[1].new_files - ret'[1].removed_files

\* C23 as stated: in the result of sync_with_filesystem, synced_files is the
\* number of recognized-extension files seen in the directory, new_files is
\* the length of new_file_names and the number of records inserted,
\* removed_files the number of records deleted, so the store grows by
\* new_files minus removed_files.
C23_SyncedFilesCountsFilesSeen ==
    [][Called("sync") =>
          /\ ret'[1].synced_files =
                Cardinality({f \in Names : Exists(files, f) /\ Recognized(f)})
          /\ SyncCountsMatch]_vars

\* C23 amended: synced_files is the number of recognized-extension files seen
\* in the directory that were tracked already or could be read; new_files is
\* the length of new_file_names and the number of records inserted,
\* removed_files the number of records deleted, so the store grows by
\* new_files minus removed_files.
C23_SyncedFilesCountsFilesKept ==
    [][Called("sync") =>
          /\ ret'[1].synced_files =
                Cardinality({f \in Names : /\ Exists(files, f) /\ Recognized(f)
                                           /\ (Has(metadata, f) \/ f \notin unreadable)})
          /\ SyncCountsMatch]_vars

\* a pass that counted one file and left an unreadable one out of the count
C23_Witness ==
    /\ Returned("sync")
    /\ ret[1].synced_files > 0
    /\ ret[1].synced_files < Cardinality({f \in Names : Exists(files, f) /\ Recognized(f)})

\* C24: whatever name the metadata file is configured with,
\* sync_with_filesystem neither reads nor hashes it, makes no record for it
\* and does not count it among the files seen.
C24_SidecarExcludedFromScan ==
    [][Called("sync") =>
          \A m \in Sidecar(files) :
              /\ ~Has(metadata', m)
              /\ m \notin Range(ret'[1].new_file_names)
              /\ ret'[1].synced_files =
                    Cardinality({f \in Names : Exists(files, f) /\ Recognized(f)})]_vars

\* C25: when a DocumentManager has been constructed on a missing or corrupt
\* metadata file, one sync_with_filesystem rebuilds the state: it returns,
\* the store then holds a record for exactly the readable
\* recognized-extension files of the directory, each with the hash and size
\* of its bytes, and the metadata file holds that mapping.
C25_SyncRebuildsAfterCorruptLoad ==
    [][( /\ Called("sync")
         /\ pc[1] = "done" /\ call[1].op = "init"
         /\ persisted.kind # "json" )
       => /\ ret'[1].returned
          /\ \A f \in Names :
                /\ Has(metadata', f) <=>
                      Exists(files, f) /\ Recognized(f) /\ f \notin unreadable
                /\ Has(metadata', f) =>
                      /\ Get(metadata', f).hash = Digest(files[f].content)
                      /\ Get(metadata', f).file_size = Len(files[f].content)
          /\ persisted' = Full(metadata')
          /\ ~IsList(metadata')]_vars

\* C26: check_duplicate, get_all_documents, get_document_count,
\* cleanup_orphaned_files and add_document delete no record, in memory or in
\* the metadata file, and get_all_documents lists a record whose file is gone,
\* with exists = false.
C26_OnlyReconciliationDropsRecords ==
    [][/\ ( \E op \in {"check", "list", "count", "cleanup", "add"} : Called(op) )
          => \A f \in Names :
                /\ Has(metadata, f) => Has(metadata', f)
                /\ Has(LoadMetadata(persisted), f) => Has(LoadMetadata(persisted'), f)
       /\ Called("list")
          => \A f \in Names :
                Has(metadata, f) /\ ~Exists(files, f)
                => \E i \in DOMAIN ret'[1].documents :
                      /\ ret'[1].documents[i].filename = f
                      /\ ret'[1].documents[i].exists = FALSE]_vars

\* a listing that shows a record whose file is gone beside one whose file is there
C26_Witness ==
    /\ Returned("list")
    /\ \E i \in DOMAIN ret[1].documents : ~ret[1].documents[i].exists
    /\ \E i \in DOMAIN ret[1].documents : ret[1].documents[i].exists

\* C27 as stated: whenever add_document, remove_document,
\* sync_with_filesystem or get_storage_stats returns, the metadata file holds
\* the in-memory mapping, from every starting state, a manager constructed
\* over a corrupt metadata file and a remove_document of an untracked
\* filename included.
C27_PersistedEqualsMemoryOnReturn ==
    [][( /\ \E op \in {"add", "remove", "sync", "stats"} : Called(op)
         /\ ret'[1].returned )
       => persisted' = Full(metadata')]_vars

\* C27 amended: whenever add_document returns success, remove_document
\* returns after deleting a record, or sync_with_filesystem or
\* get_storage_stats returns, the metadata file holds the in-memory mapping;
\* an add_document rejected as a duplicate and a remove_document of an
\* untracked filename leave the mapping and the metadata file as they were.
C27_PersistedEqualsMemoryAfterSave ==
    [][/\ ( \/ Called("add") /\ ret'[1].returned /\ ret'[1].success
            \/ Called("remove") /\ ret'[1].returned /\ Has(metadata, call'[1].filename)
            \/ Called("sync") /\ ret'[1].returned
            \/ Called("stats") /\ ret'[1].returned )
          => persisted' = Full(metadata')
       /\ ( \/ Called("add") /\ ret'[1].returned /\ ~ret'[1].success
            \/ Called("remove") /\ ret'[1].returned /\ ~Has(metadata, call'[1].filename) )
          => persisted' = persisted /\ metadata' = metadata]_vars

\* a removal that returned over a metadata file that is not a mapping
C27_Witness ==
    /\ Returned("remove")
    /\ ret[1].success = TRUE
    /\ persisted.kind \in {"empty", "garbled"}
    /\ metadata = EmptyDict
    /\ \E f \in Names : Exists(files, f)

\* C28: add_document(f, ...) and remove_document(f) touch only f: for every
\* other filename g, the record of g and the file of g are after the call
\* what they were when it began, whether it returned success or failure.
C28_OtherNamesUntouched ==
    ( /\ pc[1] = "done"
      /\ call[1].op \in {"add", "remove"}
      /\ pre[1].taken )
    => \A g \in Names :
          g # call[1].filename
          => /\ Get(metadata, g) = Get(pre[1].metadata, g)
             /\ files[g] = pre[1].files[g]

\* a failed call made while another document was in the store
C28_Witness ==
    /\ pc[1] = "done"
    /\ call[1].op \in {"add", "remove"}
    /\ pre[1].taken
    /\ ret[1].success = FALSE
    /\ \E g \in Names :
          g # call[1].filename /\ Has(metadata, g) /\ Exists(files, g)

\* C29: add_document(f, c) without force_overwrite, where f is tracked and no
\* record has the hash digest(c), is not taken for a duplicate: it succeeds
\* and replaces the bytes of file f and the record of f (hash, size, upload
\* date), so the former content of f is lost.
C29_TrackedNameOverwrittenWithoutForce ==
    [][\A f \in Names, c \in Contents :
          ( /\ Called("add")
            /\ call'[1].filename = f /\ call'[1].file_content = c
            /\ ~call'[1].force_overwrite
            /\ Has(metadata, f)
            /\ \A g \in Names : Has(metadata, g) => Get(metadata, g).hash # Digest(c) )
          => /\ ret'[1].success = TRUE
             /\ Exists(files', f)
             /\ files'[f].content = c
             /\ Get(metadata', f) = UploadedRecord(f, c, now)
             /\ Get(metadata', f).hash # Get(metadata, f).hash
             /\ Get(LoadMetadata(persisted'), f) = Get(metadata', f)]_vars

\* an unforced add that returned success for a name tracked before another
\* name was added, whose record now has the hash of the new bytes
C29_Witness ==
    /\ Returned("add")
    /\ ~call[1].force_overwrite
    /\ ret[1].success = TRUE
    /\ Len(metadata.order) > 1
    /\ metadata.order[Len(metadata.order)] # call[1].filename
    /\ Get(metadata, call[1].filename).hash = Digest(call[1].file_content)

\* C30: cleanup_orphaned_files deletes only recognized-extension files that
\* have no record: never a tracked file, never the metadata file; it leaves
\* the mapping unchanged, a sync_with_filesystem that follows it reports
\* new_files = 0, and right after a sync_with_filesystem in which every file
\* was readable it deletes nothing.
C30_CleanupDeletesOnlyOrphans ==
    [][Called("cleanup") =>
          /\ \A f \in DOMAIN files :
                Exists(files, f) /\ ~Exists(files', f)
                => /\ Recognized(f)
                   /\ ~Has(metadata, f)
                   /\ f \notin Sidecar(files)
          /\ persisted' = persisted
          /\ metadata' = metadata
          /\ \A s \in Orderings({n \in DOMAIN files' : Exists(files', n)}) :
                Run(WorldAfter, Enter([op |-> "sync"], s)).l.ret.new_files = 0
          /\ ( pc[1] = "done" /\ call[1].op = "sync" /\ unreadable = {} )
             => files' = files]_vars

TypeOK == now \in 0..MaxClock /\ ops \in 0..MaxOps

====
